---- MODULE Spec2Model ----
(***************************************************************************)
(* A model of social-scrubber: the platform adapters' paginated get_posts  *)
(* (Bluesky, Mastodon, Twitter stub), BasePlatform.bulk_delete_posts with  *)
(* _archive_post, and the SocialScrubber session of cli.py.                *)
(*                                                                         *)
(* Strings that are taken apart by the code (post ids, file names, paths)  *)
(* are sequences of tokens; the token "/" is the path separator.  Naive    *)
(* timestamps are integers (one unit = one second on the UTC time line).   *)
(***************************************************************************)
EXTENDS Integers, Sequences, FiniteSets, TLC

VARIABLES
    \* ---- adapters and the remote services
    authenticated,   \* BasePlatform._authenticated, per adapter
    client,          \* adapter.client is set (not None), per adapter
    feeds,           \* the remote author feed of each platform, newest first
    config,          \* Config: configured (per platform) and the scrub settings
    env,             \* the faults the local file system may produce
    argv,            \* the options the scrub command was called with
    clock,           \* the host's clock: the instant (now, in UTC) and its UTC offset
    last_auth,       \* history: the last authenticate() call: adapter, returned value,
                     \* cause, raised, and the flag before it (was)
    \* ---- the get_posts call in progress
    self,            \* the adapter get_posts / bulk_delete_posts runs on
    fpc,             \* "idle", "loop", "done", "raised"
    start_date, end_date, limit,
    posts, collected, cursor,
    result,          \* the list get_posts returned
    failed,          \* get_posts went through its except branch
    requests,        \* history: the page requests issued, in order, each with the
                     \* number of items scanned before it (at), whether it was
                     \* answered (ok), the answer's size and cursor (served, next)
                     \* and how the for-loop over the answer ended (out)
    scanned,         \* history: the feed items the for-loop looked at, in order
    \* ---- the bulk_delete_posts call in progress
    bpc,             \* "idle", "archive", "delete", "done", "raised"
    bposts,          \* the posts argument
    archive_before_delete,
    bi,              \* index of the post the for-loop is at
    archive_file,    \* the local archive_file of the current iteration
    results,         \* the results list
    fs,              \* the local file system: dirs, files (complete), partial
    events,          \* history: archive attempts (file: the path computed; ok: the
                     \* file was written in full) and delete_post calls (ok:
                     \* success), in order, each with the post's id
    \* ---- the session (SocialScrubber.run_interactive)
    spc,             \* where run_interactive is
    queue,           \* the platforms the current for-loop has still to visit
    auth_results,    \* the dict of authenticate_platforms, in insertion order
    all_posts,       \* the dict of get_posts_from_platforms, in insertion order
    date_range,      \* the locals start_date and end_date of run_interactive
    answers,         \* history: what the user typed at each prompt (recorded in
                     \* the gate specification)
    slog             \* history: the adapter calls the session made, in order

fetchVars == <<fpc, start_date, end_date, limit, posts, collected, cursor,
               result, failed, requests, scanned>>
adapterVars == <<authenticated, client, feeds, config, env, argv, clock, last_auth>>
sessVars == <<spc, queue, auth_results, all_posts, date_range, answers, slog>>
bulkVars == <<bpc, bposts, archive_before_delete, bi, archive_file, results, fs, events>>
vars == <<adapterVars, self, fetchVars, bulkVars, sessVars>>

----------------------------------------------------------------------------
(* Bounds of the model *)
MaxTime == 2
MaxFeedLen == 3
MaxLimit == 2
MaxPosts == 2
MaxPostId == 2
MaxZonedLen == 2
MaxRequests == 2
MaxEvents == 2

(* Program constants *)
BlueskyPageMax == 50
MastodonPageMax == 40

Platforms == {"bluesky", "mastodon", "twitter"}
Times == 0..MaxTime
None == <<>>
Some(n) == <<n>>
Limits == {None} \cup {Some(n) : n \in 0..MaxLimit}
NoCursor == 0

Min(a, b) == IF a <= b THEN a ELSE b

\* A feed item, by the created_at the remote serves.  raw = "iso": a well-formed
\* ISO-8601 string (or, from Mastodon.py, a datetime), civil time ts with UTC
\* offset off when aware; "malformed": a string that is no timestamp; "null":
\* None; "missing": the record has no created_at at all.
FeedItems == [ts : Times, aware : {TRUE}, off : {0}, raw : {"iso"}]
\* Timestamps with any UTC offset, and naive ones.
Offsets == {-1, 0, 1}
ZonedItems == [ts : Times, aware : {TRUE}, off : Offsets, raw : {"iso"}]
              \cup [ts : Times, aware : {FALSE}, off : {0}, raw : {"iso"}]
\* Items whose timestamp cannot be parsed.
BadItems == [ts : {0}, aware : {FALSE}, off : {0}, raw : {"malformed", "null", "missing"}]
RECURSIVE SeqsUpTo(_, _)
SeqsUpTo(S, n) ==
    IF n = 0 THEN {<<>>}
    ELSE LET shorter == SeqsUpTo(S, n - 1)
         IN  shorter \cup {Append(q, x) : q \in {r \in shorter : Len(r) = n - 1}, x \in S}
Feeds == SeqsUpTo(FeedItems, MaxFeedLen)
ZonedFeeds == SeqsUpTo(ZonedItems, MaxZonedLen)
MixedFeeds == SeqsUpTo(FeedItems \cup BadItems, MaxFeedLen)
\* The feeds of the session and adapter specifications: up to MaxPosts items, all
\* at time 0.
SessionFeeds ==
    {[j \in 1..n |-> [ts |-> 0, aware |-> TRUE, off |-> 0, raw |-> "iso"]] : n \in 0..MaxPosts}

----------------------------------------------------------------------------
(* Post ids *)
RKey(k) == "3k" \o ToString(k)
BlueskyUri(k) == <<"at:", "/", "/", "did:plc:me", "/", "app.bsky.feed.post", "/", RKey(k)>>
MastodonId(k) == <<ToString(k)>>
PostId(p, k) == IF p = "bluesky" THEN BlueskyUri(k) ELSE MastodonId(k)

Post(p, k, created) == [id |-> PostId(p, k), created_at |-> created, platform |-> p]

----------------------------------------------------------------------------
(* get_posts: the pure parts *)

\* `if limit` / `if limit and ...`: Python truthiness of Optional[int]
Truthy(l) == l # None /\ l[1] # 0

PageSize(pmax, l, c) == IF Truthy(l) THEN Min(pmax, l[1] - c) ELSE pmax

BlueskyCreatedAt(item) == item.ts
MastodonCreatedAt(item) == IF item.aware THEN item.ts - item.off ELSE item.ts
CreatedAt(p, item) == IF p = "bluesky" THEN BlueskyCreatedAt(item) ELSE MastodonCreatedAt(item)

\* The statements from the top of the for-loop body to the range test, for one
\* item: "value" (created_at is a naive datetime), "skip" (`continue`), or
\* "raise" (an exception the inner try does not catch leaves the loop).
\* Bluesky: no created_at attribute -> continue; isoparse raises ValueError on
\* a malformed string (caught, continue) and TypeError on None (not caught).
BlueskyParse(item) ==
    CASE item.raw = "missing" -> "skip"
      [] item.raw = "malformed" -> "skip"
      [] item.raw = "null" -> "raise"
      [] OTHER -> "value"
\* Mastodon: status["created_at"] raises KeyError when missing (not caught);
\* isoparse raises ValueError on a malformed string (caught, continue); None
\* passes the try untouched and `None < start_date` raises TypeError.
MastodonParse(item) ==
    CASE item.raw = "missing" -> "raise"
      [] item.raw = "malformed" -> "skip"
      [] item.raw = "null" -> "raise"
      [] OTHER -> "value"
Parse(p, item) == IF p = "bluesky" THEN BlueskyParse(item) ELSE MastodonParse(item)

\* (variant: the upper bound of the window is not tested)
OutOfRange_NoEnd(c, s, e) == c < s
OutOfRange(c, s, e) == c < s \/ c > e
\* (variant: an older item is skipped like a newer one, the scan goes on)
BeforeStart_Never(c, s) == FALSE
BeforeStart(c, s) == c < s
LimitReached(l, c) == Truthy(l) /\ c >= l[1]

\* The for-loop over one page.  page is the sequence of feed indices served;
\* st = [posts, collected, scanned, out], out = "return" once the loop returned,
\* "raise" once an exception left it.
RECURSIVE ScanPage(_, _, _, _, _, _, _, _)
ScanPage(p, f, page, i, s, e, l, st) ==
    IF i > Len(page) THEN st
    ELSE LET k == page[i]
             created == CreatedAt(p, f[k])
             seen == [st EXCEPT !.scanned = Append(@, k)]
         IN  IF Parse(p, f[k]) = "raise"
             THEN [seen EXCEPT !.out = "raise"]
             ELSE IF Parse(p, f[k]) = "skip"
             THEN ScanPage(p, f, page, i + 1, s, e, l, seen)
             ELSE IF OutOfRange(created, s, e)
             THEN IF BeforeStart(created, s)
                  THEN [seen EXCEPT !.out = "return"]
                  ELSE ScanPage(p, f, page, i + 1, s, e, l, seen)
             ELSE LET got == [seen EXCEPT !.posts = Append(@, Post(p, k, created)),
                                          !.collected = @ + 1]
                  IN  IF LimitReached(l, got.collected)
                      THEN [got EXCEPT !.out = "return"]
                      ELSE ScanPage(p, f, page, i + 1, s, e, l, got)

Range(a, b) == [j \in 1..(b - a + 1) |-> a + j - 1]

\* (variant: a remote that never sends a cursor, whatever is left of the feed)
BlueskyResponses_NoCursor(f, c, n) ==
    IF c >= Len(f) \/ n < 1 THEN {[feed |-> <<>>, cursor |-> NoCursor]}
    ELSE {[feed |-> Range(c + 1, c + k), cursor |-> NoCursor] :
             k \in 1..Min(n, Len(f) - c)}
\* What app.bsky.feed.getAuthorFeed may answer to (cursor c, limit n): up to n of
\* the items after c, and a cursor; the last page may or may not carry one.
BlueskyResponses(f, c, n) ==
    IF c >= Len(f) \/ n < 1 THEN {[feed |-> <<>>, cursor |-> NoCursor]}
    ELSE UNION {{[feed |-> Range(c + 1, c + k), cursor |-> cur] :
                    cur \in IF c + k = Len(f) THEN {NoCursor, c + k} ELSE {c + k}} :
                 k \in 1..Min(n, Len(f) - c)}

\* What account_statuses may answer to (max_id m, limit n): up to n of the
\* statuses older than m (all of them when m is None), newest first.
MastodonResponses(f, m, n) ==
    IF m >= Len(f) \/ n < 1 THEN {<<>>}
    ELSE {Range(m + 1, m + k) : k \in 1..Min(n, Len(f) - m)}

----------------------------------------------------------------------------
(* Adapter operations *)

\* What authenticate() may do on adapter p: [ret, authenticated, client, cause,
\* raised], one element per answer of the remote: login accepted ("ok"),
\* credentials rejected, remote unreachable; "missing" is the configuration
\* check.  raised: an exception leaves authenticate().
\* (variant: the except branch leaves the flag as it was)
BlueskyAuthenticate_KeepFlag(p) ==
    IF ~config.configured[p]
    THEN {[ret |-> FALSE, authenticated |-> authenticated[p], client |-> client[p],
           cause |-> "missing", raised |-> FALSE]}
    ELSE {[ret |-> TRUE, authenticated |-> TRUE, client |-> TRUE, cause |-> "ok", raised |-> FALSE]}
         \cup {[ret |-> FALSE, authenticated |-> authenticated[p], client |-> TRUE,
                cause |-> c, raised |-> FALSE] : c \in {"rejected", "network"}}
\* (variant: the flag is set before the login call)
BlueskyAuthenticate_FlagFirst(p) ==
    IF ~config.configured[p]
    THEN {[ret |-> FALSE, authenticated |-> authenticated[p], client |-> client[p],
           cause |-> "missing", raised |-> FALSE]}
    ELSE {[ret |-> TRUE, authenticated |-> TRUE, client |-> TRUE, cause |-> "ok", raised |-> FALSE]}
         \cup {[ret |-> FALSE, authenticated |-> TRUE, client |-> TRUE,
                cause |-> c, raised |-> FALSE] : c \in {"rejected", "network"}}
BlueskyAuthenticate(p) ==
    IF ~config.configured[p]
    THEN {[ret |-> FALSE, authenticated |-> authenticated[p], client |-> client[p],
           cause |-> "missing", raised |-> FALSE]}
    ELSE {[ret |-> TRUE, authenticated |-> TRUE, client |-> TRUE, cause |-> "ok", raised |-> FALSE]}
         \cup {[ret |-> FALSE, authenticated |-> FALSE, client |-> TRUE,
                cause |-> c, raised |-> FALSE] : c \in {"rejected", "network"}}

MastodonAuthenticate(p) ==
    IF ~config.configured[p]
    THEN {[ret |-> FALSE, authenticated |-> authenticated[p], client |-> client[p],
           cause |-> "missing", raised |-> FALSE]}
    ELSE {[ret |-> TRUE, authenticated |-> TRUE, client |-> TRUE, cause |-> "ok", raised |-> FALSE]}
         \cup {[ret |-> FALSE, authenticated |-> FALSE, client |-> TRUE,
                cause |-> c, raised |-> FALSE] : c \in {"rejected", "network"}}

TwitterAuthenticate(p) ==
    {[ret |-> FALSE, authenticated |-> authenticated[p], client |-> client[p],
      cause |-> "stub", raised |-> FALSE]}

AuthenticateOutcomes(p) ==
    CASE p = "bluesky" -> BlueskyAuthenticate(p)
      [] p = "mastodon" -> MastodonAuthenticate(p)
      [] OTHER -> TwitterAuthenticate(p)

NoAuth == [p |-> "", ret |-> FALSE, cause |-> "", raised |-> FALSE, was |-> FALSE]
Authenticate(p, o) ==
    /\ authenticated' = [authenticated EXCEPT ![p] = o.authenticated]
    /\ client' = [client EXCEPT ![p] = o.client]
    /\ last_auth' = [p |-> p, ret |-> o.ret, cause |-> o.cause, raised |-> o.raised,
                     was |-> authenticated[p]]
    /\ UNCHANGED <<feeds, config, env, argv, clock>>

\* get_posts up to the first loop iteration: the guard, then the locals.
GetPostsEnter(p, s, e, l) ==
    IF ~authenticated[p] \/ ~client[p]
    THEN /\ fpc' = "raised"
         /\ UNCHANGED <<start_date, end_date, limit, posts, collected, cursor,
                        result, failed, requests, scanned>>
    ELSE /\ fpc' = "loop"
         /\ start_date' = s /\ end_date' = e /\ limit' = l
         /\ posts' = <<>> /\ cursor' = NoCursor /\ collected' = 0
         /\ failed' = FALSE
         /\ UNCHANGED <<result, requests, scanned>>

GetPostsReturn(ps) ==
    /\ fpc' = "done"
    /\ result' = ps

\* (variant: the except branch returns the posts collected so far)
ExceptReturn_KeepCollected(ps) == ps
\* `except Exception as e: ... return []`, ps being the posts collected
ExceptReturn(ps) == <<>>

\* (variant: the loop does not take the cursor from the response)
NextCursor_Dropped(response) == NoCursor
\* `cursor = response.cursor`
NextCursor(response) == response.cursor

\* One iteration of BlueskyPlatform.get_posts' while-loop.
BlueskyGetPostsPage ==
    /\ fpc = "loop" /\ self = "bluesky"
    /\ LET n == PageSize(BlueskyPageMax, limit, collected)
       IN  \E response \in BlueskyResponses(feeds[self], cursor, n) :
             /\ requests' = Append(requests,
                    [cursor |-> cursor, limit |-> n, at |-> Len(scanned), ok |-> TRUE,
                     served |-> Len(response.feed), next |-> response.cursor,
                     out |-> ScanPage(self, feeds[self], response.feed, 1,
                                      start_date, end_date, limit,
                                      [posts |-> posts, collected |-> collected,
                                       scanned |-> scanned, out |-> "next"]).out])
             /\ IF response.feed = <<>>
                THEN /\ GetPostsReturn(posts)
                     /\ UNCHANGED <<posts, collected, cursor, scanned, failed>>
                ELSE LET st == ScanPage(self, feeds[self], response.feed, 1,
                                        start_date, end_date, limit,
                                        [posts |-> posts, collected |-> collected,
                                         scanned |-> scanned, out |-> "next"])
                     IN  /\ posts' = st.posts
                         /\ collected' = st.collected
                         /\ scanned' = st.scanned
                         /\ failed' = (failed \/ st.out = "raise")
                         /\ CASE st.out = "raise" ->
                                    GetPostsReturn(ExceptReturn(st.posts)) /\ UNCHANGED cursor
                              [] st.out = "return" ->
                                    GetPostsReturn(st.posts) /\ UNCHANGED cursor
                              [] OTHER ->
                                    /\ cursor' = NextCursor(response)
                                    /\ IF NextCursor(response) = NoCursor
                                       THEN GetPostsReturn(st.posts)
                                       ELSE UNCHANGED <<fpc, result>>
    /\ UNCHANGED <<start_date, end_date, limit>>
    /\ UNCHANGED <<adapterVars, self, bulkVars, sessVars>>

\* One iteration of MastodonPlatform.get_posts' while-loop.
MastodonGetPostsPage ==
    /\ fpc = "loop" /\ self = "mastodon"
    /\ LET batch_limit == PageSize(MastodonPageMax, limit, collected)
       IN  \E statuses \in MastodonResponses(feeds[self], cursor, batch_limit) :
             /\ requests' = Append(requests,
                    [cursor |-> cursor, limit |-> batch_limit, at |-> Len(scanned),
                     ok |-> TRUE, served |-> Len(statuses), next |-> NoCursor,
                     out |-> ScanPage(self, feeds[self], statuses, 1,
                                      start_date, end_date, limit,
                                      [posts |-> posts, collected |-> collected,
                                       scanned |-> scanned, out |-> "next"]).out])
             /\ IF statuses = <<>>
                THEN /\ GetPostsReturn(posts)
                     /\ UNCHANGED <<posts, collected, cursor, scanned, failed>>
                ELSE LET st == ScanPage(self, feeds[self], statuses, 1,
                                        start_date, end_date, limit,
                                        [posts |-> posts, collected |-> collected,
                                         scanned |-> scanned, out |-> "next"])
                     IN  /\ posts' = st.posts
                         /\ collected' = st.collected
                         /\ scanned' = st.scanned
                         /\ failed' = (failed \/ st.out = "raise")
                         /\ CASE st.out = "raise" ->
                                    GetPostsReturn(ExceptReturn(st.posts)) /\ UNCHANGED cursor
                              [] st.out = "return" ->
                                    GetPostsReturn(st.posts) /\ UNCHANGED cursor
                              [] OTHER ->
                                    /\ cursor' = statuses[Len(statuses)]
                                    /\ UNCHANGED <<fpc, result>>
    /\ UNCHANGED <<start_date, end_date, limit>>
    /\ UNCHANGED <<adapterVars, self, bulkVars, sessVars>>

\* The page request raises (transport or API error): `except Exception: return []`.
GetPostsRequestFails ==
    /\ fpc = "loop" /\ self \in {"bluesky", "mastodon"}
    /\ requests' = Append(requests,
                          [cursor |-> cursor,
                           limit |-> PageSize(IF self = "bluesky" THEN BlueskyPageMax
                                              ELSE MastodonPageMax, limit, collected),
                           at |-> Len(scanned), ok |-> FALSE,
                           served |-> 0, next |-> NoCursor, out |-> "raise"])
    /\ failed' = TRUE
    /\ GetPostsReturn(ExceptReturn(posts))
    /\ UNCHANGED <<start_date, end_date, limit, posts, collected, cursor, scanned>>
    /\ UNCHANGED <<adapterVars, self, bulkVars, sessVars>>

\* TwitterPlatform.get_posts: no guard, no request, an empty list.
TwitterGetPosts(s, e, l) ==
    /\ GetPostsReturn(<<>>)
    /\ UNCHANGED <<start_date, end_date, limit, posts, collected, cursor,
                   failed, requests, scanned>>

GetPosts(p, s, e, l) ==
    IF p = "twitter" THEN TwitterGetPosts(s, e, l) ELSE GetPostsEnter(p, s, e, l)

----------------------------------------------------------------------------
(* Strings as token sequences, paths as sequences of segments *)

\* str.split('/'): the segments between separators, empty ones kept
RECURSIVE PySplit(_, _, _)
PySplit(str, i, cur) ==
    IF i > Len(str) THEN <<cur>>
    ELSE IF str[i] = "/" THEN <<cur>> \o PySplit(str, i + 1, <<>>)
    ELSE PySplit(str, i + 1, Append(cur, str[i]))
Split(str) == PySplit(str, 1, <<>>)

\* pathlib: the parts of a relative path string, empty segments dropped
PathParts(str) == SelectSeq(Split(str), LAMBDA seg : seg # <<>>)
PathJoin(base, str) == base \o PathParts(str)
Parent(path) == SubSeq(path, 1, Len(path) - 1)
Prefixes(path) == {SubSeq(path, 1, n) : n \in 0..Len(path)}

\* config.scrub.archive_path, "./archives"
ArchivePath == << <<"archives">> >>

EmptyFs == [dirs |-> {<<>>}, files |-> {}, partial |-> {}]

\* Path(...).mkdir(parents=True, exist_ok=True)
Mkdir(f, path) == [f EXCEPT !.dirs = @ \cup Prefixes(path)]

FsFaults == {"none", "mkdir", "open", "dump"}

----------------------------------------------------------------------------
(* DeletionResult and _archive_post *)

DeletionResult(post_id, success, error) ==
    [post_id |-> post_id, success |-> success, error |-> error,
     archived |-> FALSE, archive_path |-> None]

Strftime(t) == ToString(t)
\* (variant: the platform's name is not part of the file name)
ArchiveFilename_NoPlatform(name, post) ==
    <<Strftime(post.created_at), "_">> \o post.id \o <<".json">>
ArchiveFilename(name, post) ==
    <<name, "_", Strftime(post.created_at), "_">> \o post.id \o <<".json">>
ArchiveFilepath(name, post, archive_path) ==
    PathJoin(archive_path, ArchiveFilename(name, post))

\* (variant: the except branch returns the path it failed to write)
ArchivePost_PathOnFailure(name, post, archive_path, f, fault) ==
    IF fault = "mkdir"
    THEN [ret |-> Some(ArchiveFilepath(name, post, archive_path)), fs |-> f]
    ELSE [ret |-> Some(ArchiveFilepath(name, post, archive_path)),
          fs |-> Mkdir(f, archive_path)]
\* _archive_post under the file system f, where the environment makes the named
\* step fail (fault): [ret, fs].  ret is the returned path, or None.
ArchivePost(name, post, archive_path, f, fault) ==
    IF fault = "mkdir" THEN [ret |-> None, fs |-> f]
    ELSE LET made == Mkdir(f, archive_path)
             filepath == ArchiveFilepath(name, post, archive_path)
         IN  IF fault = "open" \/ Parent(filepath) \notin made.dirs
                \/ filepath \in made.dirs
             THEN [ret |-> None, fs |-> made]
             ELSE IF fault = "dump"
             THEN [ret |-> None,
                   fs |-> [made EXCEPT !.files = @ \ {filepath},
                                       !.partial = @ \cup {filepath}]]
             ELSE [ret |-> Some(filepath),
                   fs |-> [made EXCEPT !.files = @ \cup {filepath},
                                       !.partial = @ \ {filepath}]]

----------------------------------------------------------------------------
(* delete_post *)

\* str(e) of the errors the remote delete may raise
RemoteErrors == {"Record not found", "Connection timed out"}

\* What delete_post(post_id) may do on adapter p: [result, remote, fails, raised,
\* exc], one element per answer of the remote.  remote: the delete request was
\* issued; fails: the request raised, exc being its message; raised: an
\* exception leaves delete_post.
\* (variant: no try/except around the remote call)
BlueskyDeletePost_NoCatch(auth, post_id) ==
    IF ~auth
    THEN {[result |-> DeletionResult(post_id, FALSE, Some("Not authenticated with Bluesky")),
           remote |-> FALSE, fails |-> FALSE, raised |-> FALSE, exc |-> None]}
    ELSE {[result |-> DeletionResult(post_id, TRUE, None),
           remote |-> TRUE, fails |-> FALSE, raised |-> FALSE, exc |-> None]}
         \cup {[result |-> DeletionResult(post_id, FALSE, Some(e)),
           remote |-> TRUE, fails |-> TRUE, raised |-> TRUE, exc |-> Some(e)] : e \in RemoteErrors}
\* (variant: the result carries the record key, not the id it was given)
BlueskyDeletePost_RkeyId(auth, post_id) ==
    LET uri_parts == Split(post_id)
        rkey == uri_parts[Len(uri_parts)]
    IN  IF ~auth
        THEN {[result |-> DeletionResult(post_id, FALSE, Some("Not authenticated with Bluesky")),
               remote |-> FALSE, fails |-> FALSE, raised |-> FALSE, exc |-> None]}
        ELSE IF Len(uri_parts) < 2
        THEN {[result |-> DeletionResult(post_id, FALSE, Some("Invalid post URI format")),
               remote |-> FALSE, fails |-> FALSE, raised |-> FALSE, exc |-> None]}
        ELSE {[result |-> DeletionResult(rkey, TRUE, None),
               remote |-> TRUE, fails |-> FALSE, raised |-> FALSE, exc |-> None]}
             \cup {[result |-> DeletionResult(rkey, FALSE, Some(e)),
               remote |-> TRUE, fails |-> TRUE, raised |-> FALSE, exc |-> Some(e)] : e \in RemoteErrors}
BlueskyDeletePost(auth, post_id) ==
    IF ~auth
    THEN {[result |-> DeletionResult(post_id, FALSE, Some("Not authenticated with Bluesky")),
           remote |-> FALSE, fails |-> FALSE, raised |-> FALSE, exc |-> None]}
    ELSE IF Len(Split(post_id)) < 2
    THEN {[result |-> DeletionResult(post_id, FALSE, Some("Invalid post URI format")),
           remote |-> FALSE, fails |-> FALSE, raised |-> FALSE, exc |-> None]}
    ELSE {[result |-> DeletionResult(post_id, TRUE, None),
           remote |-> TRUE, fails |-> FALSE, raised |-> FALSE, exc |-> None]}
         \cup {[result |-> DeletionResult(post_id, FALSE, Some(e)),
           remote |-> TRUE, fails |-> TRUE, raised |-> FALSE, exc |-> Some(e)] : e \in RemoteErrors}

\* (variant: the except branch reports a fixed text, not the error's message)
MastodonDeletePost_FixedText(auth, post_id) ==
    IF ~auth
    THEN {[result |-> DeletionResult(post_id, FALSE, Some("Not authenticated with Mastodon")),
           remote |-> FALSE, fails |-> FALSE, raised |-> FALSE, exc |-> None]}
    ELSE {[result |-> DeletionResult(post_id, TRUE, None),
           remote |-> TRUE, fails |-> FALSE, raised |-> FALSE, exc |-> None]}
         \cup {[result |-> DeletionResult(post_id, FALSE, Some("Failed to delete post")),
                remote |-> TRUE, fails |-> TRUE, raised |-> FALSE, exc |-> Some(e)] :
                   e \in RemoteErrors}
MastodonDeletePost(auth, post_id) ==
    IF ~auth
    THEN {[result |-> DeletionResult(post_id, FALSE, Some("Not authenticated with Mastodon")),
           remote |-> FALSE, fails |-> FALSE, raised |-> FALSE, exc |-> None]}
    ELSE {[result |-> DeletionResult(post_id, TRUE, None),
           remote |-> TRUE, fails |-> FALSE, raised |-> FALSE, exc |-> None]}
         \cup {[result |-> DeletionResult(post_id, FALSE, Some(e)),
           remote |-> TRUE, fails |-> TRUE, raised |-> FALSE, exc |-> Some(e)] : e \in RemoteErrors}

TwitterDeletePost(auth, post_id) ==
    {[result |-> DeletionResult(post_id, FALSE, Some("Twitter/X integration not yet implemented")),
      remote |-> FALSE, fails |-> FALSE, raised |-> FALSE, exc |-> None]}

DeletePost(p, auth, post_id) ==
    CASE p = "bluesky" -> BlueskyDeletePost(auth, post_id)
      [] p = "mastodon" -> MastodonDeletePost(auth, post_id)
      [] OTHER -> TwitterDeletePost(auth, post_id)

----------------------------------------------------------------------------
(* BasePlatform.bulk_delete_posts *)

BulkDeletePostsEnter(ps, abd) ==
    /\ bposts' = ps
    /\ archive_before_delete' = abd
    /\ results' = <<>>
    /\ bi' = 1
    /\ archive_file' = None
    /\ bpc' = IF ps = <<>> THEN "done" ELSE "archive"

\* (variant: the path is not stored with the flag)
WithArchiveInfo_NoPath(r, af) ==
    IF af # None THEN [r EXCEPT !.archived = TRUE] ELSE r
\* `if archive_file:` then set the archive fields of the result
WithArchiveInfo(r, af) ==
    IF af # None THEN [r EXCEPT !.archived = TRUE, !.archive_path = af] ELSE r

\* (variant: the archive step is left out)
ShouldArchive_Never(abd) == FALSE
\* `if archive_before_delete:`
ShouldArchive(abd) == abd

\* Lines 110-114: the archive half of one iteration.
BulkArchive ==
    /\ bpc = "archive"
    /\ IF ShouldArchive(archive_before_delete)
       THEN \E fault \in env :
              LET a == ArchivePost(self, bposts[bi], ArchivePath, fs, fault)
              IN  /\ archive_file' = a.ret
                  /\ fs' = a.fs
                  /\ events' = Append(events, [op |-> "archive", p |-> self, i |-> bi,
                                               id |-> bposts[bi].id,
                                               file |-> ArchiveFilepath(self, bposts[bi],
                                                                        ArchivePath),
                                               fault |-> fault, remote |-> FALSE,
                                               exc |-> None, error |-> None,
                                               ok |-> fault = "none" /\
                                                      ArchiveFilepath(self, bposts[bi], ArchivePath)
                                                          \in a.fs.files])
       ELSE /\ archive_file' = None
            /\ UNCHANGED <<fs, events>>
    /\ bpc' = "delete"
    /\ UNCHANGED <<bposts, archive_before_delete, bi, results>>
    /\ UNCHANGED <<adapterVars, self, fetchVars, sessVars>>

\* Lines 116-124: delete_post, the archive fields, the append; then the next post.
BulkDelete ==
    /\ bpc = "delete"
    /\ \E d \in DeletePost(self, authenticated[self] /\ client[self], bposts[bi].id) :
         /\ events' = Append(events, [op |-> "delete_post", p |-> self, i |-> bi,
                                      id |-> bposts[bi].id, file |-> None,
                                      fault |-> IF d.fails THEN "remote" ELSE "none",
                                      remote |-> d.remote,
                                      exc |-> d.exc, error |-> d.result.error,
                                      ok |-> ~d.raised /\ d.result.success])
         /\ IF d.raised
            THEN /\ bpc' = "raised"
                 /\ UNCHANGED <<results, bi>>
            ELSE /\ results' = Append(results, WithArchiveInfo(d.result, archive_file))
                 /\ bi' = bi + 1
                 /\ bpc' = IF bi = Len(bposts) THEN "done" ELSE "archive"
    /\ UNCHANGED <<bposts, archive_before_delete, archive_file, fs>>
    /\ UNCHANGED <<adapterVars, self, fetchVars, sessVars>>

----------------------------------------------------------------------------
(* The session: SocialScrubber.run_interactive and what it calls *)

\* self.platforms, a dict: its keys in insertion order
PlatformOrder == <<"bluesky", "mastodon", "twitter">>

\* utils.confirm_action on the stripped, lower-cased response
Answers == {"", "y", "yes", "true", "1", "n", "no"}
\* (variant: an empty response is taken as yes, whatever the default)
ConfirmAction_EmptyIsYes(response, default) ==
    IF response = "" THEN TRUE ELSE response \in {"y", "yes", "true", "1"}
ConfirmAction(response, default) ==
    IF response = "" THEN default ELSE response \in {"y", "yes", "true", "1"}

Names(d) == [j \in 1..Len(d) |-> d[j].name]
RECURSIVE TotalPosts(_)
TotalPosts(d) == IF d = <<>> THEN 0 ELSE Len(Head(d).posts) + TotalPosts(Tail(d))

Called(op, p) == [op |-> op, p |-> p]

\* The values of ScrubConfig.start_date and end_date: the two sentinels, an
\* ISO-8601 string (its civil time t; off its UTC offset, None when it has
\* none) and a string that is neither.
Sentinel(word) == [kind |-> word, t |-> 0, off |-> None]
Iso(t, off) == [kind |-> "iso", t |-> t, off |-> off]
Malformed == [kind |-> "malformed", t |-> 0, off |-> None]
DateStrings ==
    {Sentinel("7_days_ago"), Sentinel("today"), Malformed}
    \cup {Iso(t, off) : t \in Times, off \in {None} \cup {Some(h) : h \in Offsets}}

\* A datetime: civil time and tzinfo (None: naive). Time is counted in hours.
Datetime(t, tzinfo) == [t |-> t, tzinfo |-> tzinfo]
HoursPerDay == 24
SevenDays == 7 * HoursPerDay
\* datetime.now(): the host's local civil time, naive
Now(c) == Datetime(c.now + c.utcoffset, None)
\* .replace(hour=0, minute=0, second=0, microsecond=0)
Midnight(d) == Datetime(d.t - (d.t % HoursPerDay), d.tzinfo)
Value(d) == [out |-> "value", value |-> d]
ValueError == [out |-> "raise", value |-> Datetime(0, None)]
\* datetime.fromisoformat: the string's civil time, aware when it has an offset
FromIsoformat(str) ==
    IF str.kind = "iso" THEN Value(Datetime(str.t, str.off)) ELSE ValueError

\* ScrubConfig.get_start_datetime
GetStartDatetime(str, c) ==
    IF str.kind = "7_days_ago" THEN Value(Datetime(Now(c).t - SevenDays, None))
    ELSE IF str.kind = "today" THEN Value(Midnight(Now(c)))
    ELSE FromIsoformat(str)

\* ScrubConfig.get_end_datetime
GetEndDatetime(str, c) ==
    IF str.kind = "today" THEN Value(Now(c)) ELSE FromIsoformat(str)

\* The options of the scrub command, each None when not given.
NoOptions == [dry_run |-> None, max_posts |-> None, platforms |-> None,
              start_date |-> None, end_date |-> None]
\* `if option is not None: scrubber.config.scrub.field = option`
Override(current, option) == IF option # None THEN option[1] ELSE current

\* The scrub command up to the call of run_interactive: the options given
\* replace the configured values. The platforms option is not read.
Scrub ==
    /\ spc = "cli"
    /\ config' = [config EXCEPT !.dry_run = Override(@, argv.dry_run),
                                !.max_posts_per_scrub = Override(@, argv.max_posts),
                                !.start_date = Override(@, argv.start_date),
                                !.end_date = Override(@, argv.end_date)]
    /\ spc' = "start"
    /\ UNCHANGED <<authenticated, client, feeds, env, argv, clock, last_auth>>
    /\ UNCHANGED <<queue, auth_results, all_posts, date_range, answers, slog>>
    /\ UNCHANGED <<self, fetchVars, bulkVars>>

\* Lines 286-303: the configured platforms; none ends the run.
SessionBegin ==
    /\ spc = "start"
    /\ LET configured_platforms == SelectSeq(PlatformOrder, LAMBDA n : config.configured[n])
       IN  IF configured_platforms = <<>>
           THEN spc' = "end" /\ UNCHANGED queue
           ELSE spc' = "auth" /\ queue' = configured_platforms
    /\ UNCHANGED <<auth_results, all_posts, date_range, answers, slog>>
    /\ UNCHANGED <<adapterVars, self, fetchVars, bulkVars>>

\* authenticate_platforms, one iteration; after the last one, lines 305-311:
\* the authenticated platforms (none ends the run).
SessionAuthenticate ==
    /\ spc = "auth"
    /\ LET platform_name == Head(queue)
       IN  \E o \in AuthenticateOutcomes(platform_name) :
             LET recorded == Append(auth_results, [name |-> platform_name, success |-> o.ret])
                 authenticated_platforms == Names(SelectSeq(recorded, LAMBDA r : r.success))
             IN  /\ Authenticate(platform_name, o)
                 /\ auth_results' = recorded
                 /\ slog' = Append(slog, Called("authenticate", platform_name))
                 /\ IF Tail(queue) # <<>>
                    THEN spc' = "auth" /\ queue' = Tail(queue)
                    ELSE /\ queue' = authenticated_platforms
                         /\ spc' = IF authenticated_platforms = <<>> THEN "end"
                                   ELSE "dates"
    /\ UNCHANGED <<all_posts, date_range, answers>>
    /\ UNCHANGED <<self, fetchVars, bulkVars>>

\* Lines 313-315: the date range; a string that cannot be parsed raises
\* ValueError out of run_interactive.
SessionDateRange ==
    /\ spc = "dates"
    /\ LET start == GetStartDatetime(config.start_date, clock)
           end == GetEndDatetime(config.end_date, clock)
       IN  IF start.out = "raise" \/ end.out = "raise"
           THEN spc' = "raised" /\ UNCHANGED date_range
           ELSE /\ date_range' = Some([start |-> start.value, end |-> end.value])
                /\ spc' = "confirm_fetch"
    /\ UNCHANGED <<queue, auth_results, all_posts, answers, slog>>
    /\ UNCHANGED <<adapterVars, self, fetchVars, bulkVars>>

Typed(prompt, response) == [prompt |-> prompt, response |-> response]

\* Lines 325-327: "Proceed with fetching posts?", default yes; response is what
\* the user typed.
ConfirmFetch(response) ==
    /\ spc = "confirm_fetch"
    /\ spc' = IF ConfirmAction(response, TRUE) THEN "fetch" ELSE "end"
    /\ UNCHANGED <<queue, auth_results, all_posts, date_range, slog>>
    /\ UNCHANGED <<adapterVars, self, fetchVars, bulkVars>>

SessionConfirmFetch ==
    \E response \in Answers : ConfirmFetch(response) /\ UNCHANGED answers

\* get_posts_from_platforms, one iteration up to the get_posts call.
SessionGetPosts ==
    /\ spc = "fetch" /\ queue # <<>>
    /\ LET platform_name == Head(queue)
       IN  IF ~authenticated[platform_name]
           THEN /\ queue' = Tail(queue)
                /\ UNCHANGED <<spc, self, fetchVars, slog>>
           ELSE /\ self' = platform_name
                /\ GetPosts(platform_name, date_range[1].start.t, date_range[1].end.t,
                            Some(config.max_posts_per_scrub))
                /\ slog' = Append(slog, Called("get_posts", platform_name))
                /\ spc' = "fetching"
                /\ UNCHANGED queue
    /\ UNCHANGED <<auth_results, all_posts, date_range, answers>>
    /\ UNCHANGED <<adapterVars, bulkVars>>

\* (variant: the loop is left when a platform gave nothing)
NextPlatforms_StopOnEmpty(q, ps) == IF ps = <<>> THEN <<>> ELSE Tail(q)
\* `for platform_name in platform_names:` after an iteration that recorded ps
NextPlatforms(q, ps) == Tail(q)

\* Lines 106-122: get_posts returned (or raised, which is caught): record it.
SessionGetPostsReturn ==
    /\ spc = "fetching" /\ fpc \in {"done", "raised"}
    /\ all_posts' = Append(all_posts, [name |-> Head(queue),
                                       posts |-> IF fpc = "done" THEN result ELSE <<>>])
    /\ queue' = NextPlatforms(queue, IF fpc = "done" THEN result ELSE <<>>)
    /\ spc' = "fetch"
    /\ fpc' = "idle"
    /\ UNCHANGED <<start_date, end_date, limit, posts, collected, cursor,
                   result, failed, requests, scanned>>
    /\ UNCHANGED <<auth_results, date_range, answers, slog>>
    /\ UNCHANGED <<adapterVars, self, bulkVars>>

\* Lines 337-354: nothing found ends the run; a dry run goes on without asking;
\* otherwise "Delete N posts?", default no.
\* response is what the user types when asked.
ConfirmDelete(response) ==
    /\ spc = "fetch" /\ queue = <<>>
    /\ IF TotalPosts(all_posts) = 0
       THEN spc' = "end" /\ UNCHANGED queue
       ELSE IF config.dry_run \/ ConfirmAction(response, FALSE)
       THEN spc' = "delete" /\ queue' = Names(all_posts)
       ELSE spc' = "end" /\ UNCHANGED queue
    /\ UNCHANGED <<auth_results, all_posts, date_range, slog>>
    /\ UNCHANGED <<adapterVars, self, fetchVars, bulkVars>>

SessionConfirmDelete ==
    \E response \in Answers : ConfirmDelete(response) /\ UNCHANGED answers

\* (variant: the posts of the first platform, whichever is asked for)
PostsOf_First(d, n) == d[1].posts
\* `for platform_name, posts in all_posts.items()`: the posts recorded for n
PostsOf(d, n) == (CHOOSE r \in {d[j] : j \in 1..Len(d)} : r.name = n).posts

\* utils.ensure_archive_directory: [ret, fs], one element per answer of the
\* file system.
EnsureArchiveDirectory(f, archive_path) ==
    {[ret |-> FALSE, fs |-> f] : x \in env \cap {"mkdir"}}
    \cup {[ret |-> TRUE, fs |-> Mkdir(f, archive_path)] : x \in env \ {"mkdir"}}

\* (variant: the dry-run flag is not looked at)
SkipsDeletion_IgnoreDryRun(ps, dry_run) == ps = <<>>
\* `if not posts: continue`, `if not posts: return []`, `if dry_run: return []`
SkipsDeletion(ps, dry_run) == ps = <<>> \/ dry_run

\* Lines 357-363 with delete_posts_from_platform up to the bulk_delete_posts call.
SessionDeletePosts ==
    /\ spc = "delete" /\ queue # <<>>
    /\ LET platform_name == Head(queue)
           ps == PostsOf(all_posts, platform_name)
       IN  IF SkipsDeletion(ps, config.dry_run)
           THEN /\ queue' = Tail(queue)
                /\ UNCHANGED <<spc, self, bulkVars, slog>>
           ELSE \E d \in IF config.archive_before_delete
                         THEN EnsureArchiveDirectory(fs, ArchivePath)
                         ELSE {[ret |-> TRUE, fs |-> fs]} :
                  IF ~d.ret
                  THEN /\ queue' = Tail(queue)
                       /\ fs' = d.fs
                       /\ UNCHANGED <<spc, self, slog, bpc, bposts, archive_before_delete,
                                      bi, archive_file, results, events>>
                  ELSE /\ self' = platform_name
                       /\ fs' = d.fs
                       /\ BulkDeletePostsEnter(ps, config.archive_before_delete)
                       /\ slog' = Append(slog, Called("bulk_delete_posts", platform_name))
                       /\ spc' = "deleting"
                       /\ UNCHANGED <<queue, events>>
    /\ UNCHANGED <<auth_results, all_posts, date_range, answers>>
    /\ UNCHANGED <<adapterVars, fetchVars>>

\* bulk_delete_posts returned: the next platform.
SessionDeleteReturn ==
    /\ spc = "deleting" /\ bpc \in {"done", "raised"}
    /\ spc' = IF bpc = "done" THEN "delete" ELSE "raised"
    /\ queue' = Tail(queue)
    /\ bpc' = "idle"
    /\ UNCHANGED <<bposts, archive_before_delete, bi, archive_file, results, fs, events>>
    /\ UNCHANGED <<auth_results, all_posts, date_range, answers, slog>>
    /\ UNCHANGED <<adapterVars, self, fetchVars>>

\* Line 368: the loop over all_posts is over.
SessionCompleted ==
    /\ spc = "delete" /\ queue = <<>>
    /\ spc' = "end"
    /\ UNCHANGED <<queue, auth_results, all_posts, date_range, answers, slog>>
    /\ UNCHANGED <<adapterVars, self, fetchVars, bulkVars>>

----------------------------------------------------------------------------
(* Initial states *)

AllConfigured == [p \in Platforms |-> TRUE]
ScrubDefaults ==
    [configured |-> AllConfigured, dry_run |-> TRUE, archive_before_delete |-> TRUE,
     max_posts_per_scrub |-> MaxLimit,
     start_date |-> Sentinel("7_days_ago"), end_date |-> Sentinel("today")]
\* A host on UTC, at the time of the newest post.
UtcHost == [now |-> MaxTime, utcoffset |-> 0]

\* The adapters as constructed, the call frames empty, the archive absent.
Constructed ==
    /\ authenticated = [p \in Platforms |-> FALSE]
    /\ client = [p \in Platforms |-> FALSE]
    /\ last_auth = NoAuth
    /\ date_range = None /\ answers = <<>>
    /\ fpc = "idle"
    /\ start_date = 0 /\ end_date = 0 /\ limit = None
    /\ posts = <<>> /\ collected = 0 /\ cursor = NoCursor
    /\ result = <<>> /\ failed = FALSE
    /\ requests = <<>> /\ scanned = <<>>
    /\ bpc = "idle"
    /\ bposts = <<>> /\ archive_before_delete = TRUE /\ bi = 1
    /\ archive_file = None /\ results = <<>>
    /\ fs = EmptyFs
    /\ events = <<>>
    /\ queue = <<>> /\ auth_results = <<>> /\ all_posts = <<>> /\ slog = <<>>

----------------------------------------------------------------------------
(* The fetch specification: one adapter, any feed, one get_posts call *)

FetchInit ==
    /\ Constructed
    /\ self \in Platforms
    /\ \E f \in Feeds : feeds = [p \in Platforms |-> f]
    /\ config = ScrubDefaults
    /\ clock = UtcHost
    /\ argv = NoOptions
    /\ env = FsFaults
    /\ spc = "adapter"

FetchAuthenticate ==
    /\ spc = "adapter" /\ fpc = "idle"
    /\ \E o \in AuthenticateOutcomes(self) : Authenticate(self, o)
    /\ UNCHANGED <<self, fetchVars, bulkVars, sessVars>>

FetchGetPosts ==
    /\ spc = "adapter" /\ fpc = "idle"
    /\ \E s \in Times, e \in Times, l \in Limits : GetPosts(self, s, e, l)
    /\ UNCHANGED <<adapterVars, self, bulkVars, sessVars>>

FetchNext ==
    \/ FetchAuthenticate
    \/ FetchGetPosts
    \/ BlueskyGetPostsPage
    \/ MastodonGetPostsPage
    \/ GetPostsRequestFails

FetchSpec == FetchInit /\ [][FetchNext]_vars

\* One get_posts call over a window with feed times before, in and after it,
\* and the loop's progress: get_posts is one sequential coroutine, and each
\* awaited page request is answered or raises, so an iteration that can run
\* does run.
LiveGetPosts ==
    /\ spc = "adapter" /\ fpc = "idle"
    /\ \E l \in Limits : GetPosts(self, 1, MaxTime - 1, l)
    /\ UNCHANGED <<adapterVars, self, bulkVars, sessVars>>

FetchLiveNext ==
    \/ FetchAuthenticate
    \/ LiveGetPosts
    \/ BlueskyGetPostsPage
    \/ MastodonGetPostsPage
    \/ GetPostsRequestFails

FetchLiveSpec ==
    /\ FetchInit
    /\ [][FetchLiveNext]_vars
    /\ WF_vars(BlueskyGetPostsPage)
    /\ WF_vars(MastodonGetPostsPage)

----------------------------------------------------------------------------
(* get_posts over feeds whose timestamps carry any UTC offset or none *)

ZonedInit ==
    /\ Constructed
    /\ self \in Platforms
    /\ \E f \in ZonedFeeds : feeds = [p \in Platforms |-> f]
    /\ config = ScrubDefaults
    /\ clock = UtcHost
    /\ argv = NoOptions
    /\ env = FsFaults
    /\ spc = "adapter"

ZonedSpec == ZonedInit /\ [][FetchNext]_vars

(* get_posts over feeds with items whose timestamp cannot be parsed *)

MixedInit ==
    /\ Constructed
    /\ self \in Platforms
    /\ \E f \in MixedFeeds : feeds = [p \in Platforms |-> f]
    /\ config = ScrubDefaults
    /\ clock = UtcHost
    /\ argv = NoOptions
    /\ env = FsFaults
    /\ spc = "adapter"

MixedSpec == MixedInit /\ [][FetchNext]_vars

----------------------------------------------------------------------------
(* The bulk-delete specification: one adapter, any posts, one call *)

BulkPosts(p) == {Post(p, k, 0) : k \in 1..MaxPostId}
                \cup (IF p = "bluesky" THEN {[id |-> <<"bare">>, created_at |-> 0, platform |-> p]}
                      ELSE {})

BulkInit ==
    /\ Constructed
    /\ self \in Platforms
    /\ feeds = [p \in Platforms |-> <<>>]
    /\ config = ScrubDefaults
    /\ clock = UtcHost
    /\ argv = NoOptions
    /\ env = FsFaults
    /\ spc = "adapter"

BulkAuthenticate ==
    /\ spc = "adapter" /\ bpc = "idle"
    /\ \E o \in AuthenticateOutcomes(self) : Authenticate(self, o)
    /\ UNCHANGED <<self, fetchVars, bulkVars, sessVars>>

BulkDeletePosts ==
    /\ spc = "adapter" /\ bpc = "idle"
    /\ \E ps \in SeqsUpTo(BulkPosts(self), MaxPosts), abd \in BOOLEAN :
         BulkDeletePostsEnter(ps, abd)
    /\ UNCHANGED <<fs, events>>
    /\ UNCHANGED <<adapterVars, self, fetchVars, sessVars>>

BulkNext ==
    \/ BulkAuthenticate
    \/ BulkDeletePosts
    \/ BulkArchive
    \/ BulkDelete

BulkSpec == BulkInit /\ [][BulkNext]_vars

----------------------------------------------------------------------------
(* The adapter specification: one adapter instance, configured or not, and  *)
(* any sequence of authenticate, get_posts and bulk_delete_posts calls on it *)

AdapterInit ==
    /\ Constructed
    /\ self \in Platforms
    /\ \E f \in SessionFeeds : feeds = [p \in Platforms |-> f]
    /\ \E c \in BOOLEAN :
          config = [ScrubDefaults EXCEPT !.configured = [p \in Platforms |-> c]]
    /\ clock = UtcHost
    /\ argv = NoOptions
    /\ env = {"none", "open"}
    /\ spc = "adapter"

AdapterAuthenticate == bpc = "idle" /\ FetchAuthenticate

\* get_posts over the configured window, without and with a limit.
AdapterGetPosts ==
    /\ spc = "adapter" /\ fpc = "idle" /\ bpc = "idle"
    /\ \E l \in {None, Some(MaxLimit)} :
         GetPosts(self, GetStartDatetime(config.start_date, clock).value.t,
                  GetEndDatetime(config.end_date, clock).value.t, l)
    /\ UNCHANGED <<adapterVars, self, bulkVars, sessVars>>

\* The caller has the list (or the exception): the adapter is free for the
\* next call.
AdapterGetPostsReturns ==
    /\ spc = "adapter" /\ fpc \in {"done", "raised"}
    /\ Len(requests) < MaxRequests
    /\ fpc' = "idle"
    /\ UNCHANGED <<start_date, end_date, limit, posts, collected, cursor,
                   result, failed, requests, scanned>>
    /\ UNCHANGED <<adapterVars, self, bulkVars, sessVars>>

\* bulk_delete_posts on the posts the last get_posts returned.
AdapterBulkDeletePosts ==
    /\ spc = "adapter" /\ fpc = "idle" /\ bpc = "idle"
    /\ \E abd \in BOOLEAN : BulkDeletePostsEnter(result, abd)
    /\ UNCHANGED <<fs, events>>
    /\ UNCHANGED <<adapterVars, self, fetchVars, sessVars>>

AdapterBulkDeleteReturns ==
    /\ spc = "adapter" /\ bpc \in {"done", "raised"}
    /\ Len(events) < MaxEvents
    /\ bpc' = "idle"
    /\ UNCHANGED <<bposts, archive_before_delete, bi, archive_file, results, fs, events>>
    /\ UNCHANGED <<adapterVars, self, fetchVars, sessVars>>

AdapterNext ==
    \/ AdapterAuthenticate
    \/ AdapterGetPosts
    \/ BlueskyGetPostsPage
    \/ MastodonGetPostsPage
    \/ GetPostsRequestFails
    \/ AdapterGetPostsReturns
    \/ AdapterBulkDeletePosts
    \/ BulkArchive
    \/ BulkDelete
    \/ AdapterBulkDeleteReturns

AdapterSpec == AdapterInit /\ [][AdapterNext]_vars

----------------------------------------------------------------------------
(* The session specification: one run of run_interactive *)

SessionInit ==
    /\ Constructed
    /\ self = "bluesky"
    /\ \E f \in SessionFeeds : feeds = [p \in Platforms |-> f]
    /\ config \in [configured : [Platforms -> BOOLEAN], dry_run : BOOLEAN,
                   archive_before_delete : BOOLEAN,
                   max_posts_per_scrub : 0..MaxLimit,
                   start_date : {Sentinel("7_days_ago"), Malformed},
                   end_date : {Sentinel("today")}]
    /\ clock = UtcHost
    /\ argv = NoOptions
    /\ env \in {{"none"}, {"mkdir"}, {"open"}}
    /\ spc = "start"

SessionNext ==
    \/ SessionBegin
    \/ SessionAuthenticate
    \/ SessionDateRange
    \/ SessionConfirmFetch
    \/ SessionGetPosts
    \/ BlueskyGetPostsPage
    \/ MastodonGetPostsPage
    \/ GetPostsRequestFails
    \/ SessionGetPostsReturn
    \/ SessionConfirmDelete
    \/ SessionDeletePosts
    \/ BulkArchive
    \/ BulkDelete
    \/ SessionDeleteReturn
    \/ SessionCompleted

SessionSpec == SessionInit /\ [][SessionNext]_vars

----------------------------------------------------------------------------
(* The archive specification: successive bulk_delete_posts calls, on any    *)
(* adapter, with archiving enabled, into the one archive directory          *)

MaxCalls == 2

ArchiveInit ==
    /\ Constructed
    /\ self = "bluesky"
    /\ feeds = [p \in Platforms |-> <<>>]
    /\ config = ScrubDefaults
    /\ clock = UtcHost
    /\ argv = NoOptions
    /\ env = {"none", "dump"}
    /\ spc = "adapter"

ArchiveBulkDeletePosts ==
    /\ spc = "adapter" /\ bpc = "idle"
    /\ Len(slog) < MaxCalls
    /\ \E p \in Platforms : \E post \in BulkPosts(p) :
         /\ self' = p
         /\ BulkDeletePostsEnter(<<post>>, config.archive_before_delete)
         /\ slog' = Append(slog, Called("bulk_delete_posts", p))
    /\ UNCHANGED <<fs, events>>
    /\ UNCHANGED <<spc, queue, auth_results, all_posts, date_range, answers>>
    /\ UNCHANGED <<adapterVars, fetchVars>>

ArchiveBulkDeleteReturns ==
    /\ spc = "adapter" /\ bpc \in {"done", "raised"}
    /\ bpc' = "idle"
    /\ UNCHANGED <<bposts, archive_before_delete, bi, archive_file, results, fs, events>>
    /\ UNCHANGED <<adapterVars, self, fetchVars, sessVars>>

ArchiveNext ==
    \/ ArchiveBulkDeletePosts
    \/ BulkArchive
    \/ BulkDelete
    \/ ArchiveBulkDeleteReturns

ArchiveSpec == ArchiveInit /\ [][ArchiveNext]_vars

----------------------------------------------------------------------------
(* The gate specification: one run of run_interactive on Mastodon, with     *)
(* what the user typed at the prompts on record                             *)

GateInit ==
    /\ Constructed
    /\ self = "bluesky"
    /\ \E f \in SessionFeeds : feeds = [p \in Platforms |-> f]
    /\ \E d \in BOOLEAN, a \in BOOLEAN :
          config = [ScrubDefaults EXCEPT !.configured = [p \in Platforms |-> p = "mastodon"],
                                         !.dry_run = d, !.archive_before_delete = a]
    /\ clock = UtcHost
    /\ argv = NoOptions
    /\ env = {"none"}
    /\ spc = "start"

GateConfirmFetch ==
    \E response \in Answers :
        /\ ConfirmFetch(response)
        /\ answers' = Append(answers, Typed("fetch", response))

\* The deletion prompt is shown when posts were found and the run is not a
\* dry run.
GateConfirmDelete ==
    \E response \in Answers :
        /\ ConfirmDelete(response)
        /\ answers' = IF TotalPosts(all_posts) # 0 /\ ~config.dry_run
                       THEN Append(answers, Typed("delete", response))
                       ELSE answers

GateNext ==
    \/ SessionBegin
    \/ SessionAuthenticate
    \/ SessionDateRange
    \/ GateConfirmFetch
    \/ SessionGetPosts
    \/ MastodonGetPostsPage
    \/ GetPostsRequestFails
    \/ SessionGetPostsReturn
    \/ GateConfirmDelete
    \/ SessionDeletePosts
    \/ BulkArchive
    \/ BulkDelete
    \/ SessionDeleteReturn
    \/ SessionCompleted

GateSpec == GateInit /\ [][GateNext]_vars

----------------------------------------------------------------------------
(* The command specification: one run of the scrub command, with options *)

ScrubOptions ==
    [dry_run : {None, Some(FALSE)}, max_posts : {None, Some(1)},
     platforms : {None, Some(<<"bluesky">>), Some(<<"mastodon", "twitter">>)},
     start_date : {None, Some(Malformed)}, end_date : {None}]

\* Config.from_env, then the adapters as constructed from it.
ScrubInit ==
    /\ Constructed
    /\ self = "bluesky"
    /\ \E f \in SessionFeeds : feeds = [p \in Platforms |-> f]
    /\ \E c \in [Platforms -> BOOLEAN], a \in BOOLEAN :
          config = [ScrubDefaults EXCEPT !.configured = c, !.archive_before_delete = a]
    /\ clock = UtcHost
    /\ argv \in ScrubOptions
    /\ env = {"none"}
    /\ spc = "cli"

ScrubNext ==
    \/ Scrub
    \/ SessionNext

ScrubSpec == ScrubInit /\ [][ScrubNext]_vars

----------------------------------------------------------------------------
(* The date-range specification: the scrub command up to the date range of *)
(* run_interactive, for every date string and every host clock             *)

HostClocks == [now : Times, utcoffset : Offsets]

DatesInit ==
    /\ Constructed
    /\ self = "mastodon"
    /\ feeds = [p \in Platforms |-> <<>>]
    /\ \E s \in DateStrings, e \in DateStrings :
          config = [ScrubDefaults EXCEPT
                        !.configured = [p \in Platforms |-> p = "mastodon"],
                        !.start_date = s, !.end_date = e]
    /\ clock \in HostClocks
    /\ argv \in [dry_run : {None}, max_posts : {None}, platforms : {None},
                  start_date : {None, Some(Sentinel("today"))},
                  end_date : {None, Some(Iso(MaxTime, Some(1)))}]
    /\ env = {"none"}
    /\ spc = "cli"

DatesNext ==
    \/ Scrub
    \/ SessionBegin
    \/ SessionAuthenticate
    \/ SessionDateRange

DatesSpec == DatesInit /\ [][DatesNext]_vars

----------------------------------------------------------------------------
(* Properties of get_posts, checked under FetchSpec *)

Fetched == fpc = "done" /\ self \in {"bluesky", "mastodon"}
Feed == feeds[self]
ItemTime(k) == CreatedAt(self, Feed[k])
InWindow(t) == start_date <= t /\ t <= end_date

\* C1: every Post of the list get_posts returns (and of the list it is
\* building) has start_date <= created_at <= end_date, both bounds inclusive,
\* whatever the feed, its order and its split into pages.
C1_ReturnedPostsInRange ==
    /\ \A j \in 1..Len(posts) : fpc \in {"loop", "done"} => InWindow(posts[j].created_at)
    /\ \A j \in 1..Len(result) : InWindow(result[j].created_at)

\* A call that returned a post on each bound of the window, after skipping a
\* newer item and stopping at an older one, over more than one page.
C1_Witness ==
    /\ Fetched /\ start_date < end_date
    /\ \E j \in 1..Len(result) : result[j].created_at = start_date
    /\ \E j \in 1..Len(result) : result[j].created_at = end_date
    /\ Len(requests) >= 2

\* The feed is in reverse-chronological order.
ReverseChronological(f) ==
    \A a, b \in 1..Len(f) : a < b => CreatedAt(self, f[a]) >= CreatedAt(self, f[b])

RECURSIVE InRangePosts(_)
InRangePosts(k) ==
    IF k > Len(Feed) THEN <<>>
    ELSE (IF InWindow(ItemTime(k)) THEN <<Post(self, k, ItemTime(k))>> ELSE <<>>)
         \o InRangePosts(k + 1)
FirstN(q, n) == SubSeq(q, 1, Min(n, Len(q)))

\* C2: a get_posts call given an integer limit (0 included), on a
\* reverse-chronological feed, returns at most limit posts: exactly the first
\* limit in-range items of the feed, in feed order.
C2_LimitRespected ==
    (Fetched /\ ~failed /\ limit # None /\ ReverseChronological(Feed))
        => /\ Len(result) <= limit[1]
           /\ result = FirstN(InRangePosts(1), limit[1])

\* C3: as soon as an item with created_at < start_date is scanned the call
\* returns the posts collected so far: that item is the last one scanned, no
\* page request is issued after it and no later feed item is in the result.
C3_EarlyExit ==
    \A j \in 1..Len(scanned) :
        ItemTime(scanned[j]) < start_date
            => /\ j = Len(scanned)
               /\ fpc = "done" /\ result = posts
               /\ \A r \in 1..Len(requests) : requests[r].at < j
               /\ \A q \in 1..Len(result), k \in 1..Len(Feed) :
                      result[q].id = PostId(self, k) => k < scanned[j]

\* The call stopped at an older item with an in-range item left behind it in the
\* feed (an out-of-order feed), having collected a post before.
C3_Witness ==
    /\ Fetched /\ scanned # <<>> /\ result # <<>>
    /\ ItemTime(scanned[Len(scanned)]) < start_date
    /\ \E k \in 1..Len(Feed) : k > scanned[Len(scanned)] /\ InWindow(ItemTime(k))

\* The r-th response ended the feed: an empty page, or no cursor.
EndsFeed(r) == requests[r].served = 0 \/ requests[r].next = NoCursor
\* The r-th response was a page with a cursor which the for-loop went through
\* to its end.
Continues(r) ==
    /\ requests[r].ok /\ requests[r].served > 0
    /\ requests[r].next # NoCursor /\ requests[r].out = "next"

\* C11: on Bluesky, when the first response is a page with a non-empty cursor
\* and the second response ends the feed (empty page or no cursor), get_posts
\* issues exactly two get_author_feed requests: the first without a cursor,
\* the second with exactly the cursor the first response returned.
C11_CursorContinuation ==
    (self = "bluesky" /\ requests # <<>>)
        => /\ requests[1].cursor = NoCursor
           /\ (Continues(1) /\ fpc = "done")
                  => /\ Len(requests) >= 2
                     /\ requests[2].cursor = requests[1].next
           /\ (Continues(1) /\ Len(requests) >= 2 /\ requests[2].ok /\ EndsFeed(2))
                  => Len(requests) = 2 /\ fpc = "done"

\* Two pages were served: one item with a cursor, then an empty page; and, in
\* another call, a last page without cursor.
C11_Witness ==
    /\ self = "bluesky" /\ fpc = "done" /\ ~failed /\ Len(requests) = 2
    /\ Continues(1) /\ requests[2].cursor = requests[1].next
    /\ requests[2].served = 0 /\ result # <<>>

C15_ApiErrorPropagates ==
    (self = "bluesky" /\ requests # <<>> /\ ~requests[Len(requests)].ok)
        => fpc = "raised"

\* is_authenticated and a client: what the guards of get_posts and delete_post
\* ask for.
Usable(p) == authenticated[p] /\ client[p]

\* C17: on every adapter (Bluesky, Mastodon, Twitter stub), get_posts called
\* on an adapter that is not authenticated fails with the "not authenticated"
\* error, issues no remote request and returns no list.
C17_UnauthenticatedGetPostsFails ==
    (fpc # "idle" /\ ~Usable(self)) => fpc = "raised" /\ requests = <<>>

----------------------------------------------------------------------------
(* Timestamp normalization, checked under ZonedSpec *)

\* The UTC civil time of the instant an aware item's timestamp denotes.
UtcTime(item) == item.ts - item.off

\* C12: on both adapters, for every item whose timestamp carries a UTC offset
\* (any offset), the created_at stored on the Post and compared with the range
\* is the UTC civil time of that instant; so two timestamps of the same
\* instant with different offsets are stored as the same created_at.
C12_NormalizedToUtc ==
    \A j \in 1..Len(posts), k \in 1..Len(Feed) :
        (posts[j].id = PostId(self, k) /\ Feed[k].aware)
            => /\ posts[j].created_at = UtcTime(Feed[k])
               /\ InWindow(UtcTime(Feed[k]))

----------------------------------------------------------------------------
(* Items whose timestamp cannot be parsed, checked under MixedSpec *)

\* The feed positions whose timestamp can be parsed, in feed order.
RECURSIVE GoodIndices(_)
GoodIndices(k) ==
    IF k > Len(Feed) THEN <<>>
    ELSE (IF Feed[k].raw = "iso" THEN <<k>> ELSE <<>>) \o GoodIndices(k + 1)
\* What the call returns from the feed without its unparsable items.
WithoutBadItems ==
    ScanPage(self, Feed, GoodIndices(1), 1, start_date, end_date, limit,
             [posts |-> <<>>, collected |-> 0, scanned |-> <<>>, out |-> "next"]).posts
NoRequestFailed == \A r \in 1..Len(requests) : requests[r].ok

\* C13: an item whose timestamp cannot be parsed (malformed string, null,
\* missing) is skipped and the call goes on: it returns what it would return
\* if the item were not in the feed.
C13_BadItemSkipped ==
    (Fetched /\ NoRequestFailed) => result = WithoutBadItems

----------------------------------------------------------------------------
(* Properties of bulk_delete_posts, checked under BulkSpec *)

ArchiveEvents == SelectSeq(events, LAMBDA ev : ev.op = "archive")
DeleteCalls == SelectSeq(events, LAMBDA ev : ev.op = "delete_post")
IsArchiveOf(ev, i) == ev.op = "archive" /\ ev.i = i
IsDeleteOf(ev, i) == ev.op = "delete_post" /\ ev.i = i

\* C4: with archive_before_delete, every delete_post call for a post comes
\* after an archive attempt (_archive_post) for that same post.
C4_ArchiveAttemptFirst ==
    archive_before_delete
        => \A j \in 1..Len(events) :
               events[j].op = "delete_post"
                   => \E a \in 1..(j - 1) : IsArchiveOf(events[a], events[j].i)

\* Two posts went through, the remote delete was issued for one whose archive
\* attempt had failed.
C4_Witness ==
    /\ bpc = "done" /\ archive_before_delete /\ Len(bposts) >= 2
    /\ \E a, j \in 1..Len(events) :
          /\ a < j /\ IsArchiveOf(events[a], events[j].i) /\ ~events[a].ok
          /\ events[j].op = "delete_post" /\ events[j].remote

\* C6: a remote delete that raises for item k does not end the batch: no
\* exception leaves bulk_delete_posts, the loop goes on to the next post, the
\* call returns one result per post, and each result's success is that of its
\* own delete.
C6_PartialFailureIsolation ==
    /\ bpc # "raised"
    /\ bpc \in {"archive", "delete"} => bi = Len(results) + 1 /\ bi <= Len(bposts)
    /\ bpc = "done" => Len(results) = Len(bposts)
    /\ \A i \in 1..Len(results) :
           \E j \in 1..Len(events) :
               /\ IsDeleteOf(events[j], i)
               /\ results[i].success = (events[j].remote /\ events[j].fault = "none")

\* The first post's remote delete raised, the second post was deleted.
C6_Witness ==
    /\ bpc = "done" /\ Len(results) >= 2
    /\ ~results[1].success /\ results[2].success
    /\ \E j \in 1..Len(events) : IsDeleteOf(events[j], 1) /\ events[j].fault = "remote"

\* C7: delete_post is called exactly once per input post, in input order (no
\* retry), and the i-th result carries the i-th post's id; on return there are
\* as many results as posts.
C7_OneDeletePerPostInOrder ==
    /\ Len(DeleteCalls) <= Len(bposts)
    /\ \A j \in 1..Len(DeleteCalls) : DeleteCalls[j].i = j
    /\ Len(results) <= Len(DeleteCalls)
    /\ \A i \in 1..Len(results) : results[i].post_id = bposts[i].id
    /\ bpc = "done" => Len(results) = Len(bposts) /\ Len(DeleteCalls) = Len(bposts)

\* Two different posts, the first delete failed at the remote and was not
\* tried again.
C7_Witness ==
    /\ bpc = "done" /\ Len(results) = 2
    /\ bposts[1].id # bposts[2].id
    /\ DeleteCalls[1].fault = "remote" /\ DeleteCalls[2].ok

\* C8: when the archive write for a post fails (mkdir, open or the dump
\* fails), delete_post is still called for that post, its result has
\* archived = false and archive_path = None, and the batch goes on.
C8_ArchiveFailureDoesNotBlock ==
    \A a \in 1..Len(events) :
        (events[a].op = "archive" /\ events[a].fault # "none")
            => LET i == events[a].i
               IN  /\ bpc # "raised"
                   /\ a = Len(events) => bpc = "delete" /\ bi = i
                   /\ a < Len(events) => IsDeleteOf(events[a + 1], i)
                   /\ i <= Len(results)
                          => ~results[i].archived /\ results[i].archive_path = None
                   /\ bpc = "done" => Len(results) = Len(bposts)

\* The first post's archive write failed, the post was deleted all the same,
\* and the second post was archived and processed.
C8_Witness ==
    /\ bpc = "done" /\ archive_before_delete /\ Len(results) >= 2
    /\ \E a \in 1..Len(events) : IsArchiveOf(events[a], 1) /\ events[a].fault # "none"
    /\ results[1].success /\ ~results[1].archived
    /\ results[2].archived

NotAuthenticatedError(p) ==
    IF p = "bluesky" THEN Some("Not authenticated with Bluesky")
    ELSE Some("Not authenticated with Mastodon")

\* C18: delete_post on the Bluesky and Mastodon adapters never raises; on an
\* unauthenticated adapter it issues no remote delete and returns success =
\* false with the "not authenticated" error; when the remote delete raises it
\* returns success = false with that error's message as error; it returns
\* success = true only when the remote delete completed without error.
C18_DeletePostNeverRaises ==
    self \in {"bluesky", "mastodon"}
        => /\ bpc # "raised"
           /\ \A j \in 1..Len(events) :
                  events[j].op = "delete_post"
                      => /\ ~Usable(self)
                               => /\ ~events[j].ok /\ ~events[j].remote
                                  /\ events[j].error = NotAuthenticatedError(self)
                         /\ events[j].exc # None
                               => ~events[j].ok /\ events[j].error = events[j].exc
                         /\ events[j].ok => events[j].remote /\ events[j].exc = None
                         /\ events[j].i <= Len(results)
                               => /\ results[events[j].i].success = events[j].ok
                                  /\ results[events[j].i].error = events[j].error

\* On Mastodon the first remote delete raised and its message is the result's
\* error, the second went through.
C18_Witness ==
    /\ self = "mastodon" /\ bpc = "done" /\ Len(results) = 2
    /\ DeleteCalls[1].exc = Some("Record not found")
    /\ results[1].error = Some("Record not found") /\ ~results[1].success
    /\ results[2].success

\* The ids get_posts gives its posts.
FetchablePost(post) ==
    \E k \in 1..MaxPostId : post.id = PostId(post.platform, k)
\* {platform}_{YYYYMMDD_HHMMSS}_{post id}.json inside archive_path
NamedArchiveFile(post) == Append(ArchivePath, ArchiveFilename(post.platform, post))

\* Nothing is wrong with the archive directory: no archive attempt of the run
\* met a file-system fault.
ArchiveDirectoryUsable ==
    \A b \in 1..Len(events) : events[b].op = "archive" => events[b].fault = "none"

\* C9: for a post get_posts can return (Mastodon id, Bluesky at:// URI), with
\* archiving on and an archive directory that can be created and written, the
\* archive file {platform}_{timestamp}_{post id}.json is in archive_path and
\* the post's result has archived = true and a non-null archive_path.
C9_ArchiveFileWritten ==
    ArchiveDirectoryUsable =>
        \A a \in 1..Len(events) :
            (events[a].op = "archive" /\ FetchablePost(bposts[events[a].i]))
                => /\ NamedArchiveFile(bposts[events[a].i]) \in fs.files
                   /\ events[a].i <= Len(results)
                          => /\ results[events[a].i].archived
                             /\ results[events[a].i].archive_path # None

\* C10: in every result, error is set iff success is false, archive_path is
\* set iff archived, and archived is true iff an archive write for that post
\* was completed before its delete_post call (never without
\* archive_before_delete).
C10_ResultFields ==
    \A i \in 1..Len(results) :
        LET r == results[i]
        IN  /\ (r.error # None) <=> ~r.success
            /\ (r.archive_path # None) <=> r.archived
            /\ r.archived <=>
                 \E a, j \in 1..Len(events) :
                     /\ a < j /\ IsArchiveOf(events[a], i) /\ events[a].ok
                     /\ IsDeleteOf(events[j], i)
            /\ ~archive_before_delete => ~r.archived

\* A result archived and deleted, and one neither archived nor deleted.
C10_Witness ==
    /\ bpc = "done" /\ Len(results) >= 2
    /\ results[1].archived /\ results[1].success /\ results[1].archive_path # None
    /\ ~results[2].archived /\ ~results[2].success /\ results[2].error # None

----------------------------------------------------------------------------
(* Properties of the session, checked under SessionSpec *)

WasCalled(op, p) == \E j \in 1..Len(slog) : slog[j] = Called(op, p)
FetchLoopOver == (spc = "fetch" /\ queue = <<>>) \/ spc \in {"delete", "deleting"}

\* C5: in a dry run get_posts is still called on each authenticated platform
\* (the fetch loop visits every one of them), while bulk_delete_posts and
\* delete_post are never called and nothing is written to the archive: no
\* directory, no file.
C5_DryRunGate ==
    config.dry_run
        => /\ \A p \in Platforms : ~WasCalled("bulk_delete_posts", p)
           /\ events = <<>>
           /\ bpc = "idle"
           /\ fs = EmptyFs
           /\ FetchLoopOver
                  => \A p \in Platforms : authenticated[p] => WasCalled("get_posts", p)

\* A dry run that fetched posts from two platforms, with archiving configured,
\* and ran to its end.
C5_Witness ==
    /\ config.dry_run /\ config.archive_before_delete /\ spc = "end"
    /\ WasCalled("get_posts", "bluesky") /\ WasCalled("get_posts", "mastodon")
    /\ Len(all_posts) = 2 /\ all_posts[1].posts # <<>> /\ all_posts[2].posts # <<>>

\* The authenticate loop is over.
AuthLoopOver == spc \notin {"start", "auth"}
Recorded(d, p) == \E j \in 1..Len(d) : d[j].name = p
AuthSucceeded(p) == \E j \in 1..Len(auth_results) :
                        auth_results[j].name = p /\ auth_results[j].success

\* C16: a failure on one platform (missing configuration, failed
\* authentication, a fetch that fails or finds nothing) ends neither loop of
\* the session early: authenticate is attempted on every configured platform,
\* and get_posts is attempted, and its result recorded, on every platform
\* that authenticated.
C16_PlatformIsolation ==
    /\ AuthLoopOver
           => \A p \in Platforms : config.configured[p] => Recorded(auth_results, p)
    /\ FetchLoopOver
           => \A p \in Platforms :
                  AuthSucceeded(p) => WasCalled("get_posts", p) /\ Recorded(all_posts, p)

\* Twitter failed to authenticate, the fetch from Bluesky failed at its first
\* request, and the posts of Mastodon were fetched and recorded.
C16_Witness ==
    /\ FetchLoopOver
    /\ Recorded(auth_results, "twitter") /\ ~AuthSucceeded("twitter")
    /\ Len(all_posts) = 2
    /\ all_posts[1] = [name |-> "bluesky", posts |-> <<>>] /\ ~requests[1].ok
    /\ all_posts[2].name = "mastodon" /\ all_posts[2].posts # <<>>

----------------------------------------------------------------------------
(* Properties of the adapter's authentication state, checked under AdapterSpec *)

\* C19 as claimed: once is_authenticated is true on an adapter it stays true
\* after any later authenticate, get_posts, delete_post or bulk_delete_posts
\* call, a failing authenticate included.
C19_OneWay ==
    [][\A p \in Platforms : authenticated[p] => authenticated'[p]]_vars

\* The step is an authenticate() call on p whose login failed.
FailedLogin(p) ==
    /\ last_auth' # last_auth
    /\ last_auth'.p = p /\ last_auth'.cause \in {"rejected", "network"}

\* C19, amended: once is_authenticated is true it stays true after any later
\* get_posts, delete_post and bulk_delete_posts call and after any later
\* authenticate call except one whose login fails, which sets it back to
\* false.
C19_OneWayUntilFailedLogin ==
    [][\A p \in Platforms :
          authenticated[p] => (authenticated'[p] <=> ~FailedLogin(p))]_vars

\* An authenticated adapter went through a get_posts and a bulk_delete_posts
\* call with a remote delete and a second, successful authenticate, and is
\* still authenticated.
C19_Witness ==
    /\ authenticated[self] /\ last_auth.was /\ last_auth.ret
    /\ requests # <<>> /\ result # <<>>
    /\ \E j \in 1..Len(events) : events[j].op = "delete_post" /\ events[j].remote

\* C20: on every adapter, whatever its state before, authenticate() does not
\* raise and is_authenticated is true afterwards iff it returned true; a call
\* that fails (missing credentials, rejected credentials, network error)
\* returns false and leaves the adapter unauthenticated.
C20_AuthenticateResult ==
    last_auth # NoAuth
        => /\ ~last_auth.raised
           /\ authenticated[last_auth.p] <=> last_auth.ret
           /\ last_auth.cause \in {"missing", "rejected", "network", "stub"}
                  => ~last_auth.ret /\ ~authenticated[last_auth.p]

\* An adapter that had authenticated and fetched posts failed a later login.
C20_Witness ==
    /\ last_auth.p = self /\ last_auth.was /\ last_auth.cause = "network"
    /\ ~authenticated[self] /\ result # <<>>

----------------------------------------------------------------------------
(* Properties of the scrub command, checked under ScrubSpec *)

Listed(p) == \E j \in 1..Len(argv.platforms[1]) : argv.platforms[1][j] = p
DeletePostCalled(p) == \E j \in 1..Len(events) :
                           events[j].op = "delete_post" /\ events[j].p = p

\* C21: when a list of platforms is given, a platform that is not in the list
\* receives no authenticate, get_posts, bulk_delete_posts or delete_post call.
C21_OnlyListedPlatforms ==
    argv.platforms # None
        => \A p \in Platforms :
               ~Listed(p) => /\ ~WasCalled("authenticate", p)
                             /\ ~WasCalled("get_posts", p)
                             /\ ~WasCalled("bulk_delete_posts", p)
                             /\ ~DeletePostCalled(p)

----------------------------------------------------------------------------
(* Properties of the session's limits and order, checked under SessionSpec *)

DeletePostCalls == Cardinality({j \in 1..Len(events) : events[j].op = "delete_post"})

\* C22: with max_posts_per_scrub = M, the posts fetched for deletion, summed
\* over all platforms, and the delete_post calls of the run, are at most M.
C22_PerRunCap ==
    /\ TotalPosts(all_posts) <= config.max_posts_per_scrub
    /\ DeletePostCalls <= config.max_posts_per_scrub

----------------------------------------------------------------------------
(* Properties of the date range, checked under DatesSpec *)

\* The start or the end date in force is a string that cannot be parsed.
DateMalformed ==
    \/ GetStartDatetime(config.start_date, clock).out = "raise"
    \/ GetEndDatetime(config.end_date, clock).out = "raise"

\* C23: a malformed start or end date is rejected before any platform work:
\* in a run whose date range cannot be parsed no adapter is ever called.
C23_MalformedDateRejectedFirst ==
    (spc # "cli" /\ DateMalformed) => slog = <<>> /\ events = <<>>

----------------------------------------------------------------------------
(* Properties of the archive directory, checked under ArchiveSpec *)

ArchiveAttempts == {j \in 1..Len(events) : events[j].op = "archive"}

\* C24: two archived posts that differ in platform or in post id have
\* different archive file paths: no file is written for two different posts,
\* and none written by one platform is written over by another.
C24_ArchiveNamesDistinct ==
    \A a \in ArchiveAttempts, b \in ArchiveAttempts :
        (events[a].p # events[b].p \/ events[a].id # events[b].id)
            => events[a].file # events[b].file

\* Mastodon and Twitter/X each archived the post with the same id and the
\* same time, and both files are there.
C24_Witness ==
    \E a \in ArchiveAttempts, b \in ArchiveAttempts :
        /\ events[a].p = "mastodon" /\ events[b].p = "twitter"
        /\ events[a].id = events[b].id
        /\ events[a].ok /\ events[b].ok
        /\ {events[a].file, events[b].file} \subseteq fs.files

----------------------------------------------------------------------------
(* Termination of get_posts, checked under FetchLiveSpec *)

\* The call ended by exhausting the feed: every request was answered and every
\* page was gone through to its end, the last one being empty or without cursor.
Exhausted ==
    /\ Fetched /\ ~failed /\ requests # <<>>
    /\ \A r \in 1..Len(requests) : requests[r].ok /\ requests[r].out = "next"

\* C25: over a finite feed whose remote serves ever older items and ends with
\* an empty page or a page without cursor, every get_posts call that entered
\* its loop returns, with or without a limit; and a call that ended by
\* exhausting the feed returns every in-range post of the feed.
C25_FetchReturns ==
    /\ (fpc = "loop") ~> (fpc = "done")
    /\ [](Exhausted => result = posts /\ result = InRangePosts(1))

\* A call with a limit went through a feed of three items in more than one
\* page and returned, the limit not reached.
C25_Witness ==
    /\ Exhausted /\ limit # None /\ Len(requests) >= 2
    /\ Len(Feed) = MaxFeedLen /\ result # <<>>

----------------------------------------------------------------------------
(* Properties of the session's deletion path, checked under SessionSpec *)

DeleteAttempted(ev, p, post) ==
    \E j \in 1..Len(ev) : ev[j].op = "delete_post" /\ ev[j].p = p /\ ev[j].id = post.id

\* C26: in a run that is not a dry run, with archiving enabled, the deletion
\* loop never leaves a platform before delete_post has been attempted for each
\* of its fetched posts, whatever fails on the backup side (the creation of
\* the archive directory included).
C26_BackupFailureNeverBlocksDelete ==
    [][(/\ spc \in {"delete", "deleting"} /\ queue # <<>> /\ queue' = Tail(queue)
        /\ ~config.dry_run /\ config.archive_before_delete)
           => LET ps == PostsOf(all_posts, Head(queue))
              IN  \A j \in 1..Len(ps) : DeleteAttempted(events', Head(queue), ps[j])]_vars

----------------------------------------------------------------------------
(* Properties of the page requests, checked under FetchSpec *)

PageMax == IF self = "bluesky" THEN BlueskyPageMax ELSE MastodonPageMax
\* The posts accepted before the r-th request was issued.
CollectedAt(r) ==
    Cardinality({j \in 1..requests[r].at : InWindow(ItemTime(scanned[j]))})

\* C27: every page request asks for min(P, limit - collected) items when a
\* limit is given and for P items otherwise (P = 50 on Bluesky, 40 on
\* Mastodon), and so for between 1 and P items.
C27_PageSizeRequested ==
    (fpc \in {"loop", "done"} /\ self \in {"bluesky", "mastodon"})
        => \A r \in 1..Len(requests) :
               /\ requests[r].limit = IF limit # None
                                       THEN Min(PageMax, limit[1] - CollectedAt(r))
                                       ELSE PageMax
               /\ 1 <= requests[r].limit /\ requests[r].limit <= PageMax

----------------------------------------------------------------------------
(* The order of the session's calls, checked under SessionSpec *)

CalledBefore(j, op, p) == \E i \in 1..(j - 1) : slog[i] = Called(op, p)
Returned(p, id) ==
    \E j \in 1..Len(all_posts) :
        /\ all_posts[j].name = p
        /\ \E q \in 1..Len(all_posts[j].posts) : all_posts[j].posts[q].id = id

\* The calls made so far came in order: get_posts after authenticate,
\* bulk_delete_posts after get_posts returned, delete_post inside
\* bulk_delete_posts and on a post that platform's get_posts returned.
CallsInOrder ==
    /\ \A j \in 1..Len(slog) :
          /\ slog[j].op = "get_posts" => CalledBefore(j, "authenticate", slog[j].p)
          /\ slog[j].op = "bulk_delete_posts"
                 => CalledBefore(j, "get_posts", slog[j].p) /\ Recorded(all_posts, slog[j].p)
    /\ \A j \in 1..Len(events) :
          events[j].op = "delete_post"
              => /\ WasCalled("bulk_delete_posts", events[j].p)
                 /\ Returned(events[j].p, events[j].id)

\* Every adapter on which get_posts, bulk_delete_posts or delete_post has been
\* called is authenticated: it was when the call was made (the call is the
\* step into this state or an earlier one, and no session step after the
\* authenticate loop writes the flag).
CallsOnAuthenticated ==
    /\ \A j \in 1..Len(slog) :
          slog[j].op \in {"get_posts", "bulk_delete_posts"} => authenticated[slog[j].p]
    /\ \A j \in 1..Len(events) :
          events[j].op = "delete_post" => authenticated[events[j].p]

\* C28: on each platform the session authenticates before it calls get_posts,
\* and get_posts has returned before any delete_post; get_posts,
\* bulk_delete_posts and delete_post are only ever called on an adapter whose
\* is_authenticated is true; and only posts that the same platform's
\* get_posts returned in this run are deleted.
C28_SessionOrder == CallsInOrder /\ CallsOnAuthenticated

\* Posts of Bluesky and of Mastodon were deleted in one run.
C28_Witness ==
    /\ DeletePostCalled("bluesky") /\ DeletePostCalled("mastodon")
    /\ WasCalled("authenticate", "twitter") /\ ~WasCalled("get_posts", "twitter")
    /\ spc = "end"

----------------------------------------------------------------------------
(* The confirmation gate, checked under GateSpec *)

Affirmative == {"y", "yes", "true", "1"}
Answered(prompt, S) == \E j \in 1..Len(answers) :
                           answers[j].prompt = prompt /\ answers[j].response \in S
\* delete_post was called, or something was written to the archive.
Destroyed == events # <<>> \/ fs # EmptyFs
Declined ==
    \/ Answered("fetch", Answers \ (Affirmative \cup {""}))
    \/ Answered("delete", Answers \ Affirmative)

\* C29 as stated: outside a dry run nothing is deleted or archived unless the
\* user typed y, yes, true or 1 at both prompts; an empty answer to the
\* deletion prompt is a no; declining either prompt ends the run with no
\* delete_post call.
C29_BothAnsweredYes ==
    ~config.dry_run
        => /\ Destroyed => Answered("fetch", Affirmative) /\ Answered("delete", Affirmative)
           /\ Answered("delete", {""}) => ~Destroyed /\ spc = "end"
           /\ Declined => ~Destroyed /\ spc = "end"

\* C29, amended: the fetch prompt's default is yes, so there an empty answer
\* also lets the run go on; the deletion prompt needs y, yes, true or 1.
C29_ConfirmationGate ==
    ~config.dry_run
        => /\ Destroyed => /\ Answered("fetch", Affirmative \cup {""})
                           /\ Answered("delete", Affirmative)
           /\ Answered("delete", {""}) => ~Destroyed /\ spc = "end"
           /\ Declined => ~Destroyed /\ spc = "end"

\* The user pressed Enter at the fetch prompt and typed yes at the deletion
\* prompt: a post was archived and deleted.
C29_Witness ==
    /\ ~config.dry_run /\ answers = <<Typed("fetch", ""), Typed("delete", "yes")>>
    /\ fs.files # {}
    /\ \E j \in 1..Len(events) : events[j].op = "delete_post" /\ events[j].ok

----------------------------------------------------------------------------
(* The date bounds handed to get_posts, checked under DatesSpec *)

\* The instant a date string stands for, as UTC civil time: an ISO string's
\* time less its offset (none: the time as written), seven days before now,
\* now, and for a start of "today" the host's local midnight.
UtcOfStart(str, c) ==
    IF str.kind = "7_days_ago" THEN c.now - SevenDays
    ELSE IF str.kind = "today" THEN Midnight(Now(c)).t - c.utcoffset
    ELSE str.t - (IF str.off = None THEN 0 ELSE str.off[1])
UtcOfEnd(str, c) ==
    IF str.kind = "today" THEN c.now
    ELSE str.t - (IF str.off = None THEN 0 ELSE str.off[1])

\* C30: the start and end bounds that run_interactive hands to get_posts are
\* naive and UTC-equivalent, for every configured value (a sentinel, an ISO
\* string with or without offset) and every UTC offset of the host.
C30_BoundsNaiveUtc ==
    date_range # None
        => /\ date_range[1].start.tzinfo = None
           /\ date_range[1].end.tzinfo = None
           /\ date_range[1].start.t = UtcOfStart(config.start_date, clock)
           /\ date_range[1].end.t = UtcOfEnd(config.end_date, clock)

====
